---- MODULE Spec2Model ----
(***************************************************************************)
(* AI Pokedex (src/app.py): the capture -> identify -> fetch -> display     *)
(* workflow of the Streamlit script, its session state, and the memoised   *)
(* data fetch.  A string is a sequence of one-character strings, so that   *)
(* strip(), lower() and replace() are computed and not assumed.            *)
(***************************************************************************)
EXTENDS Integers, Sequences, FiniteSets, TLC

VARIABLES
    pokemon_data,      \* st.session_state.pokemon_data: None or a record
    captured_image,    \* st.session_state.captured_image: None or an image
    detection_failed,  \* st.session_state.detection_failed
    camera,            \* value held by the widget keyed "pokemon_camera"
    api_key,           \* TRUE iff OPENAI_API_KEY is set in the environment
    cache,             \* st.cache_data store of fetch_pokemon_data: argument -> entry
    now,               \* clock, in seconds
    run,               \* what the last run of the script did and showed
    last_get,          \* per argument, when the last GET for it was issued and what the call returned
    arg,               \* input of the function under test (pure-function harness)
    out                \* its result

vars == <<pokemon_data, captured_image, detection_failed, camera, api_key,
          cache, now, run, last_get, arg, out>>

\* Python's None where a str is expected (no string: its one element is not a character)
None == <<"None">>
\* Python's None where the record dict is expected
NoneData == [none |-> TRUE]
\* Python's None where an image is expected
NoImage == 0

\* ------------------------------------------------------------------ bounds
MaxLen == 4        \* longest exhaustively enumerated input string
MaxTime == 3600    \* the clock stops advancing here
NumImages == 1     \* distinct photos the camera can produce
MaxAbilities == 4  \* longest list of abilities of an enumerated document
MaxTypes == 2      \* longest list of types of an enumerated document

\* ----------------------------------------------------------------- strings
LowerLetters == <<"a","b","c","d","e","f","g","h","i","j","k","l","m",
                  "n","o","p","q","r","s","t","u","v","w","x","y","z">>
UpperLetters == <<"A","B","C","D","E","F","G","H","I","J","K","L","M",
                  "N","O","P","Q","R","S","T","U","V","W","X","Y","Z">>

IsUpper(c) == \E i \in 1..26 : UpperLetters[i] = c
IsLower(c) == \E i \in 1..26 : LowerLetters[i] = c

\* str.lower() on one character
LowerChar(c) ==
    IF IsUpper(c) THEN LowerLetters[CHOOSE i \in 1..26 : UpperLetters[i] = c] ELSE c

\* str.upper() on one character
UpperChar(c) ==
    IF IsLower(c) THEN UpperLetters[CHOOSE i \in 1..26 : LowerLetters[i] = c] ELSE c

\* the characters str.strip() removes
IsSpace(c) == c \in {" ", "\t", "\n"}

lower(s) == [i \in 1..Len(s) |-> LowerChar(s[i])]

\* str.capitalize(): first character upper-cased, the rest lower-cased
capitalize(s) == [i \in 1..Len(s) |-> IF i = 1 THEN UpperChar(s[i]) ELSE LowerChar(s[i])]

\* str.strip(): drop leading and trailing whitespace
strip(s) ==
    LET idx == {i \in 1..Len(s) : ~IsSpace(s[i])}
    IN  IF idx = {} THEN <<>>
        ELSE LET lo == CHOOSE i \in idx : \A j \in idx : i <= j
                 hi == CHOOSE i \in idx : \A j \in idx : i >= j
             IN  SubSeq(s, lo, hi)

\* str.replace(" ", "-")
replace_space(s) == [i \in 1..Len(s) |-> IF s[i] = " " THEN "-" ELSE s[i]]

\* a clean_name that hyphenates before it trims and forgets to lower-case
clean_name_swapped(raw_prediction) == strip(replace_space(raw_prediction))

\* clean_name (src/app.py:62-72): raw_prediction.strip().lower().replace(" ", "-"),
\* each method applied to the value of the one before
clean_name(raw_prediction) ==
    CHOOSE slug \in {replace_space(l) : l \in {lower(t) : t \in {strip(raw_prediction)}}} : TRUE

\* ------------------------------------------------- strings used as inputs
Alphabet == {"n", "o", "e", "N", " ", "-", "\t"}

RECURSIVE StringsUpTo(_)
StringsUpTo(n) ==
    IF n = 0 THEN {<<>>}
    ELSE LET shorter == StringsUpTo(n - 1)
         IN  shorter \cup {Append(s, c) : s \in {t \in shorter : Len(t) = n - 1}, c \in Alphabet}

sPikachu     == <<"P","i","k","a","c","h","u">>
sPikachuLow  == <<"p","i","k","a","c","h","u">>
sPikachuPad  == <<" ","p","i","k","a","c","h","u"," ">>
sMrMime      == <<"M","r"," ","M","i","m","e">>
sMrMimeSlug  == <<"m","r","-","m","i","m","e">>
sMrMimeWide  == <<"M","r"," "," ","M","i","m","e","\n">>
sUnknown     == <<"u","n","k","n","o","w","n">>
sUnknownCap  == <<" ","U","n","k","n","o","w","n","\n">>
sNotAPokemon == <<"N","o","t"," ","a"," ","P","o","k","e","m","o","n">>
sNoPokemon   == <<"n","o"," ","p","o","k","e","m","o","n">>
sUnable      == <<"U","n","a","b","l","e"," ","t","o"," ","i","d","e","n","t","i","f","y">>
sNone        == <<"n","o","n","e">>

NamedStrings == {sPikachu, sPikachuLow, sPikachuPad, sMrMime, sMrMimeSlug, sMrMimeWide,
                 sUnknown, sUnknownCap, sNotAPokemon, sNoPokemon, sUnable}

Strings == StringsUpTo(MaxLen) \cup NamedStrings

\* ---------------------------------------------------------- identification
lNotAPokemon == <<"n","o","t"," ","a"," ","p","o","k","e","m","o","n">>
lUnable      == <<"u","n","a","b","l","e"," ","t","o"," ","i","d","e","n","t","i","f","y">>

\* the list of invalid responses (src/app.py:123)
Denylist == {sNone, sUnknown, lNotAPokemon, sNoPokemon, lUnable}

\* what client.chat.completions.create can do: raise, answer with no content,
\* or answer with a text
VisionRaise == [kind |-> "raise"]
VisionNull  == [kind |-> "null"]
VisionText(s) == [kind |-> "text", content |-> s]

\* result of a call: exc is TRUE iff an exception leaves the function
Returned(v, n, e) == [exc |-> FALSE, value |-> v, requests |-> n, error_shown |-> e]
Raised(n)         == [exc |-> TRUE, value |-> None, requests |-> n, error_shown |-> FALSE]

\* a filter that compares the answer with the list without lower-casing it
name_filter_case_sensitive(name) == name = <<>> \/ name \in Denylist

\* the filter of invalid responses (src/app.py:123)
name_filter(name) == name = <<>> \/ lower(name) \in Denylist

\* the body of the try block of predict_pokemon (src/app.py:91-126)
predict_try(outcome) ==
    IF outcome.kind = "raise" THEN Raised(1)
    ELSE IF outcome.kind = "null" THEN Raised(1)      \* None.strip(): AttributeError
    ELSE LET name == strip(outcome.content)
         IN  IF name_filter(name) THEN Returned(None, 1, FALSE)
             ELSE Returned(name, 1, FALSE)

\* a predict_pokemon that does not look at the key before it calls the endpoint
predict_pokemon_unchecked_key(key, outcome) ==
    LET r == predict_try(outcome)
    IN  IF r.exc THEN Returned(None, r.requests, FALSE) ELSE r

\* a predict_pokemon that calls the endpoint a second time when the call fails
predict_pokemon_retrying(key, outcome) ==
    IF ~key THEN Returned(None, 0, TRUE)
    ELSE LET r == predict_try(outcome)
         IN  IF r.exc THEN Returned(None, r.requests + 1, FALSE) ELSE r

\* a predict_pokemon without its except clause
predict_pokemon_propagating(key, outcome) ==
    IF ~key THEN Returned(None, 0, TRUE) ELSE predict_try(outcome)

\* predict_pokemon (src/app.py:75-129)
predict_pokemon(key, outcome) ==
    IF ~key THEN Returned(None, 0, TRUE)               \* st.error(...); return None
    ELSE LET r == predict_try(outcome)
         IN  IF r.exc THEN Returned(None, r.requests, FALSE)   \* except Exception
             ELSE r

VisionOutcomes(texts) == {VisionRaise, VisionNull} \cup {VisionText(s) : s \in texts}

\* ------------------------------------------------------------ data fetch
TTL == 3600        \* @st.cache_data(ttl=3600)

sElectric == <<"e","l","e","c","t","r","i","c">>
sPsychic  == <<"p","s","y","c","h","i","c">>
sFairy    == <<"f","a","i","r","y">>
sStatic   == <<"s","t","a","t","i","c">>
sRod      == <<"r","o","d">>
sFilter   == <<"f","i","l","t","e","r">>
sArtPikachu == <<"2","5">>
sArtMrMime  == <<"1","2","2">>

\* the six stats the page shows (src/app.py:218-225)
StatKeys == {"hp", "attack", "defense", "special-attack", "special-defense", "speed"}

\* the order in which the data endpoint lists stats; "accuracy" is a stat the
\* page does not show
StatOrder == <<"hp", "attack", "defense", "special-attack", "special-defense", "speed",
               "accuracy">>

\* the "stats" list of a document that lists the stats of keys, in order, with
\* base values base[k]
StatEntries(keys, base) ==
    LET present(k) == k \in keys
        names == SelectSeq(StatOrder, present)
    IN  [i \in 1..Len(names) |-> [name |-> names[i], base_stat |-> base[names[i]]]]

AllStats == {StatOrder[i] : i \in 1..Len(StatOrder)}

\* JSON documents the data endpoint serves, by slug (GET /pokemon/{slug})
Pokedex ==
    { [slug |-> sPikachuLow,
       json |-> [name |-> sPikachuLow, sprite |-> sArtPikachu, types |-> <<sElectric>>,
                 height |-> 4, weight |-> 60,
                 stats |-> StatEntries(StatKeys, [k \in AllStats |-> IF k = "speed" THEN 90 ELSE 35]),
                 abilities |-> <<sStatic, sRod>>]],
      [slug |-> sMrMimeSlug,
       json |-> [name |-> sMrMimeSlug, sprite |-> sArtMrMime, types |-> <<sPsychic, sFairy>>,
                 height |-> 13, weight |-> 545,
                 stats |-> StatEntries(StatKeys, [k \in AllStats |-> IF k = "hp" THEN 40 ELSE 90]),
                 abilities |-> <<sFilter>>]] }

\* the fields the mapping reads with data[...] (src/app.py:162-168)
RequiredFields == {"name", "sprite", "types", "height", "weight", "stats", "abilities"}

\* a 200 document without its abilities
Truncated(json) == [f \in {"name", "sprite", "types", "height", "weight", "stats"} |-> json[f]]

\* what requests.get can do for a slug: fail or time out, answer with a
\* non-200 status, answer 200 with the document, or 200 with a malformed one
GetFail == [kind |-> "fail"]
Http(status, json) == [kind |-> "http", status |-> status, json |-> json]
Responses(slug) ==
    {GetFail, Http(404, NoneData), Http(500, NoneData)}
    \cup {Http(200, e.json) : e \in {d \in Pokedex : d.slug = slug}}
    \cup {Http(200, Truncated(e.json)) : e \in {d \in Pokedex : d.slug = slug}}

\* a slice that keeps every ability
FirstThree_unbounded(a) == a

\* {stat["stat"]["name"]: stat["base_stat"] for stat in data["stats"]}: the
\* last entry of a name gives its value (src/app.py:167)
stats_dict(entries) ==
    [k \in {entries[i].name : i \in 1..Len(entries)} |->
        LET last == CHOOSE i \in 1..Len(entries) :
                        /\ entries[i].name = k
                        /\ \A j \in 1..Len(entries) : entries[j].name = k => j <= i
        IN  entries[last].base_stat]

\* a[:3]
FirstThree(a) == SubSeq(a, 1, IF Len(a) < 3 THEN Len(a) ELSE 3)

\* the dict built from the document (src/app.py:161-169); height and weight
\* are kept in tenths of a metre and of a kilogram (data[...] * 0.1)
pokemon_record(data) ==
    [name |-> capitalize(data.name),
     official_sprite |-> data.sprite,
     types |-> [i \in 1..Len(data.types) |-> capitalize(data.types[i])],
     height |-> data.height,
     weight |-> data.weight,
     stats |-> stats_dict(data.stats),
     abilities |-> [i \in 1..Len(FirstThree(data.abilities)) |-> capitalize(data.abilities[i])]]

Fetched(v, n) == [exc |-> FALSE, value |-> v, gets |-> n]
FetchRaised(n) == [exc |-> TRUE, value |-> NoneData, gets |-> n]

\* the body of the try block of fetch_pokemon_data (src/app.py:150-171)
fetch_try(response) ==
    IF response.kind = "fail" THEN FetchRaised(1)
    ELSE IF response.status # 200 THEN Fetched(NoneData, 1)
    ELSE IF ~(RequiredFields \subseteq DOMAIN response.json) THEN FetchRaised(1)  \* KeyError
    ELSE Fetched(pokemon_record(response.json), 1)

\* the function under the decorator (src/app.py:133-174); response is what
\* the GET for clean_name(pokemon_name) meets
fetch_uncached(pokemon_name, response) ==
    IF pokemon_name = <<>> THEN Fetched(NoneData, 0)
    ELSE LET r == fetch_try(response)
         IN  IF r.exc THEN Fetched(NoneData, r.gets)     \* except Exception
             ELSE r

\* the value render_pokemon_info writes for each of the six stats:
\* data["stats"].get(stat_key, 0) (src/app.py:227-230)
shown_stats(data) ==
    [k \in StatKeys |-> IF k \in DOMAIN data.stats THEN data.stats[k] ELSE 0]

\* st.cache_data keys an entry by the arguments of the call (src/app.py:132-133)
cache_key(pokemon_name) == pokemon_name

\* an entry is served until ttl seconds after it was written
cache_live(c, t, k) == k \in DOMAIN c /\ t < c[k].time + TTL

\* st.cache_data stores whatever the function returns, None included
cache_store(c, t, k, v) ==
    [x \in DOMAIN c \cup {k} |-> IF x = k THEN [value |-> v, time |-> t] ELSE c[x]]

\* a cache that never expires its entries
fetch_pokemon_data_no_ttl(c, t, pokemon_name, response) ==
    LET k == cache_key(pokemon_name)
    IN  IF k \in DOMAIN c
        THEN [exc |-> FALSE, value |-> c[k].value, gets |-> 0, hit |-> TRUE, cache |-> c]
        ELSE LET r == fetch_uncached(pokemon_name, response)
             IN  [exc |-> r.exc, value |-> r.value, gets |-> r.gets, hit |-> FALSE,
                  cache |-> IF r.exc THEN c ELSE cache_store(c, t, k, r.value)]

\* fetch_pokemon_data as called (src/app.py:132-174): the memoised function.
\* c is the store, t the time of the call.
fetch_pokemon_data(c, t, pokemon_name, response) ==
    LET k == cache_key(pokemon_name)
    IN  IF cache_live(c, t, k)
        THEN [exc |-> FALSE, value |-> c[k].value, gets |-> 0, hit |-> TRUE, cache |-> c]
        ELSE LET r == fetch_uncached(pokemon_name, response)
             IN  [exc |-> r.exc, value |-> r.value, gets |-> r.gets, hit |-> FALSE,
                  cache |-> IF r.exc THEN c ELSE cache_store(c, t, k, r.value)]

\* ------------------------------------------------------------- the session
Images == 1..NumImages

\* texts the vision model answers with in the workflow
VisionTexts == {sPikachuPad, sMrMime, sUnknownCap, <<>>}

\* arguments fetch_pokemon_data is called with directly
FetchNames == {<<>>, sPikachu, sPikachuLow, sMrMime}

\* seconds the clock advances by between two user actions
TickSteps == {1800, 3600}

\* the record of a run of the script that made no outbound call
Quiet(op) ==
    [op |-> op, analyzed |-> FALSE, vision_requests |-> 0, predicted |-> None,
     error_shown |-> FALSE, fetch_called |-> FALSE, fetch_arg |-> None,
     data_gets |-> 0, cache_hit |-> FALSE, fetched |-> NoneData, raised |-> FALSE]

\* the ghost last_get after a call for name that returned value
Noted(lg, t, name, f) ==
    IF f.gets = 0 THEN lg
    ELSE [x \in DOMAIN lg \cup {name} |->
            IF x = name THEN [value |-> f.value, time |-> t] ELSE lg[x]]

\* what the page shows below the button (src/app.py:300-321)
Shown ==
    IF pokemon_data # NoneData THEN "record"
    ELSE IF detection_failed THEN "not_found"
    ELSE "help"

\* the workflow states of the session
Found         == Shown = "record"
NotFound      == Shown = "not_found"
Idle          == Shown = "help" /\ captured_image = NoImage
ImageCaptured == Shown = "help" /\ captured_image # NoImage

Init ==
    /\ pokemon_data = NoneData          \* src/app.py:37-42
    /\ captured_image = NoImage
    /\ detection_failed = FALSE
    /\ camera = NoImage
    /\ api_key \in BOOLEAN
    /\ cache = <<>>
    /\ now = 0
    /\ run = Quiet("start")
    /\ last_get = <<>>
    /\ arg = None
    /\ out = None

\* a store that copies the widget's value even when it holds no photo
stored_image_unguarded(cam, held) == cam

\* lines 259-265 of a run of the script: the widget's photo, if any, is stored
stored_image(cam, held) == IF cam # NoImage THEN cam ELSE held

\* a run of the script that stores the photo only when the button is pressed
Rerun_not_storing(op) ==
    /\ captured_image' = captured_image
    /\ run' = Quiet(op)
    /\ UNCHANGED <<pokemon_data, detection_failed, api_key, cache, now, last_get, arg, out>>

\* a run of the script in which no button is pressed (src/app.py:257-321)
Rerun(op) ==
    /\ captured_image' = stored_image(camera', captured_image)
    /\ run' = Quiet(op)
    /\ UNCHANGED <<pokemon_data, detection_failed, api_key, cache, now, last_get, arg, out>>

\* the user takes a photo with the camera widget
TakePicture ==
    \E img \in Images :
        /\ camera' = img
        /\ Rerun("capture")

\* the user clears the photo of the camera widget
ClearPhoto ==
    /\ camera # NoImage
    /\ camera' = NoImage
    /\ Rerun("clear")

\* the branch of lines 285-298 once predict_pokemon has returned p and, when
\* it returned a name, fetch_pokemon_data has returned f
Analysed(p, called, f, name) ==
    /\ run' = [op |-> "analyze", analyzed |-> TRUE, vision_requests |-> p.requests,
               predicted |-> p.value, error_shown |-> p.error_shown,
               fetch_called |-> called, fetch_arg |-> name,
               data_gets |-> f.gets, cache_hit |-> f.hit, fetched |-> f.value,
               raised |-> p.exc \/ f.exc]
    /\ cache' = f.cache
    /\ last_get' = IF called THEN Noted(last_get, now, name, f) ELSE last_get
    /\ IF p.exc \/ f.exc
       THEN UNCHANGED <<pokemon_data, detection_failed>>       \* the run stops at the exception
       ELSE IF called /\ f.value # NoneData
       THEN pokemon_data' = f.value /\ detection_failed' = FALSE
       ELSE detection_failed' = TRUE /\ UNCHANGED pokemon_data

\* the result to record when fetch_pokemon_data is not called
NotFetched == [exc |-> FALSE, value |-> NoneData, gets |-> 0, hit |-> FALSE, cache |-> cache]

\* the user presses "Capture & Analyze" (src/app.py:257-321)
Analyze ==
    /\ captured_image' = stored_image(camera, captured_image)
    /\ UNCHANGED <<camera, api_key, now, arg, out>>
    /\ IF captured_image' = NoImage
       THEN /\ run' = Quiet("analyze")
            /\ UNCHANGED <<pokemon_data, detection_failed, cache, last_get>>
       ELSE \E outcome \in VisionOutcomes(VisionTexts) :
              LET p == predict_pokemon(api_key, outcome)
              IN  IF ~p.exc /\ p.value # None
                  THEN \E response \in Responses(clean_name(p.value)) :
                         Analysed(p, TRUE, fetch_pokemon_data(cache, now, p.value, response), p.value)
                  ELSE Analysed(p, FALSE, NotFetched, None)

\* the user presses "Start Over" under the record or under the message
\* (src/app.py:307-311, 317-321); st.experimental_rerun() runs the script
\* again at once, which stores the widget's photo again (src/app.py:259-265)
StartOver ==
    /\ Shown # "help"
    /\ pokemon_data' = NoneData
    /\ detection_failed' = FALSE
    /\ captured_image' = stored_image(camera, NoImage)
    /\ run' = Quiet("reset")
    /\ UNCHANGED <<camera, api_key, cache, now, last_get, arg, out>>

\* time passes
Tick ==
    \E d \in TickSteps :
        /\ now + d <= MaxTime
        /\ now' = now + d
        /\ run' = Quiet("tick")
        /\ UNCHANGED <<pokemon_data, captured_image, detection_failed, camera, api_key,
                       cache, last_get, arg, out>>

Next == TakePicture \/ ClearPhoto \/ Analyze \/ StartOver \/ Tick

Spec == Init /\ [][Next]_vars

\* ------------------------------------- the analysis, one outbound call at a time
\* the script is inside the spinner of src/app.py:273-298
Analyzing == run.op \in {"identifying", "fetching"}

\* the user presses "Capture & Analyze": the photo is stored and, when there
\* is one, predict_pokemon is entered (src/app.py:264-282)
AnalyzeBegin ==
    /\ ~Analyzing
    /\ captured_image' = stored_image(camera, captured_image)
    /\ run' = IF captured_image' = NoImage THEN Quiet("analyze") ELSE Quiet("identifying")
    /\ UNCHANGED <<pokemon_data, detection_failed, camera, api_key, cache, now, last_get,
                   arg, out>>

\* predict_pokemon returns (src/app.py:282-285, 296-298)
IdentifyReturn ==
    /\ run.op = "identifying"
    /\ UNCHANGED <<captured_image, camera, api_key, now, arg, out>>
    /\ \E outcome \in VisionOutcomes(VisionTexts) :
         LET p == predict_pokemon(api_key, outcome)
         IN  IF ~p.exc /\ p.value # None
             THEN /\ run' = [Quiet("fetching") EXCEPT !.vision_requests = p.requests,
                                                      !.predicted = p.value,
                                                      !.error_shown = p.error_shown]
                  /\ UNCHANGED <<pokemon_data, detection_failed, cache, last_get>>
             ELSE Analysed(p, FALSE, NotFetched, None)

\* fetch_pokemon_data returns (src/app.py:287-295)
FetchReturn ==
    /\ run.op = "fetching"
    /\ UNCHANGED <<captured_image, camera, api_key, now, arg, out>>
    /\ \E response \in Responses(clean_name(run.predicted)) :
         \E f \in {fetch_pokemon_data(cache, now, run.predicted, response)} :
            Analysed(Returned(run.predicted, run.vision_requests, run.error_shown), TRUE,
                     f, run.predicted)

\* no user action is accepted while a run of the script is in progress
NextLive ==
    \/ (~Analyzing /\ TakePicture)
    \/ (~Analyzing /\ ClearPhoto)
    \/ (~Analyzing /\ StartOver)
    \/ (~Analyzing /\ Tick)
    \/ AnalyzeBegin
    \/ IdentifyReturn
    \/ FetchReturn

\* each outbound call returns or fails in the end
SpecLive ==
    Init /\ [][NextLive]_vars /\ WF_vars(IdentifyReturn) /\ WF_vars(FetchReturn)

\* ------------------------------------------- fetch_pokemon_data called directly
\* a caller calls fetch_pokemon_data(name) (src/app.py:132-174)
FetchCall ==
    \E name \in FetchNames :
      \E response \in Responses(clean_name(name)) :
        LET f == fetch_pokemon_data(cache, now, name, response)
        IN  /\ run' = [op |-> "fetch", analyzed |-> FALSE, vision_requests |-> 0,
                       predicted |-> None, error_shown |-> FALSE,
                       fetch_called |-> TRUE, fetch_arg |-> name,
                       data_gets |-> f.gets, cache_hit |-> f.hit, fetched |-> f.value,
                       raised |-> f.exc]
            /\ cache' = f.cache
            /\ last_get' = Noted(last_get, now, name, f)
            /\ UNCHANGED <<pokemon_data, captured_image, detection_failed, camera, api_key,
                           now, arg, out>>

NextFetch == FetchCall \/ Tick

SpecFetch == Init /\ [][NextFetch]_vars

\* --------------------------------------------------- clean_name called directly
CleanStart ==
    /\ run.op = "start"
    /\ arg = None
    /\ \E x \in Strings : arg' = x
    /\ out' = None
    /\ run' = Quiet("input")
    /\ UNCHANGED <<pokemon_data, captured_image, detection_failed, camera, api_key,
                   cache, now, last_get>>

\* out = clean_name(arg)
CleanOnce ==
    /\ run.op = "input"
    /\ out' = clean_name(arg)
    /\ run' = Quiet("clean")
    /\ UNCHANGED <<pokemon_data, captured_image, detection_failed, camera, api_key,
                   cache, now, last_get, arg>>

\* the result is cleaned again: arg is the first result, out the second
CleanTwice ==
    /\ run.op = "clean"
    /\ arg' = out
    /\ out' = clean_name(out)
    /\ run' = Quiet("clean2")
    /\ UNCHANGED <<pokemon_data, captured_image, detection_failed, camera, api_key,
                   cache, now, last_get>>

NextClean == CleanStart \/ CleanOnce \/ CleanTwice

SpecClean == Init /\ [][NextClean]_vars

\* ---------------------------------------------- predict_pokemon called directly
PredictStart ==
    /\ run.op = "start"
    /\ \E outcome \in VisionOutcomes(Strings) : arg' = outcome
    /\ out' = None
    /\ run' = Quiet("input")
    /\ UNCHANGED <<pokemon_data, captured_image, detection_failed, camera, api_key,
                   cache, now, last_get>>

\* out = the result of predict_pokemon when the vision endpoint does arg
PredictCall ==
    /\ run.op = "input"
    /\ out' = predict_pokemon(api_key, arg)
    /\ run' = Quiet("predict")
    /\ UNCHANGED <<pokemon_data, captured_image, detection_failed, camera, api_key,
                   cache, now, last_get, arg>>

NextPredict == PredictStart \/ PredictCall

SpecPredict == Init /\ [][NextPredict]_vars

\* ------------------------------------------- the mapping of a 200 document
SeqsUpTo(S, n) == UNION {[1..m -> S] : m \in 0..n}

\* base values of the enumerated documents
BaseStats == [k \in AllStats |->
                 IF k = "hp" THEN 45 ELSE IF k = "attack" THEN 0
                 ELSE IF k = "speed" THEN 255 ELSE 60]

\* the sets of stats the enumerated documents list
StatChoices ==
    {p \cup q : p \in SUBSET {"hp", "special-attack", "speed", "accuracy"},
                q \in {{}, {"attack", "defense", "special-defense"}}}

\* 200 documents for the slug pikachu
Documents ==
    {[name |-> sPikachuLow, sprite |-> sArtPikachu, types |-> t, height |-> 4,
      weight |-> 60, stats |-> StatEntries(ks, BaseStats), abilities |-> a] :
        t \in SeqsUpTo({sElectric, sFairy}, MaxTypes),
        ks \in StatChoices,
        a \in SeqsUpTo({sStatic, sRod}, MaxAbilities)}

RecordStart ==
    /\ run.op = "start"
    /\ \E doc \in Documents : arg' = doc
    /\ out' = None
    /\ run' = Quiet("input")
    /\ UNCHANGED <<pokemon_data, captured_image, detection_failed, camera, api_key,
                   cache, now, last_get>>

\* the data endpoint answers 200 with the document arg: out is the record
\* fetch_pokemon_data builds and the six stat values render_pokemon_info writes
RecordFetch ==
    /\ run.op = "input"
    /\ LET r == fetch_uncached(arg.name, Http(200, arg))
       IN  out' = [record |-> r.value,
                   shown |-> IF r.value = NoneData THEN NoneData ELSE shown_stats(r.value)]
    /\ run' = Quiet("record")
    /\ UNCHANGED <<pokemon_data, captured_image, detection_failed, camera, api_key,
                   cache, now, last_get, arg>>

NextRecord == RecordStart \/ RecordFetch

SpecRecord == Init /\ [][NextRecord]_vars

\* ================================================================ properties
Chars == {LowerLetters[i] : i \in 1..26} \cup {UpperLetters[i] : i \in 1..26}
         \cup {" ", "-", "\t", "\n"}

\* s is a str (and not None)
IsString(s) == \A i \in 1..Len(s) : s[i] \in Chars

\* an analysis ran in the last run of the script
AnalysisRan == run.op = "analyze" /\ run.analyzed

\* C1: after an analysis the session is Found with exactly the record that
\* analysis fetched if identification and fetch both succeeded, and NotFound
\* (message shown, no record stored or displayed) if either was absent,
\* whatever the session held before.
C1_AnalysisDecidesState ==
    AnalysisRan =>
        IF run.predicted # None /\ run.fetched # NoneData
        THEN Found /\ pokemon_data = run.fetched
        ELSE NotFound /\ pokemon_data = NoneData

\* C2: an analysis whose identification is absent reaches NotFound and makes
\* no data-fetch call: no cache lookup, no GET.
C2_AbsentIdentificationSkipsFetch ==
    (AnalysisRan /\ run.predicted = None) =>
        /\ NotFound
        /\ ~run.fetch_called
        /\ ~run.cache_hit
        /\ run.data_gets = 0

\* the half of C2 about the outbound calls alone
NoFetchWithoutName ==
    (AnalysisRan /\ run.predicted = None) =>
        ~run.fetch_called /\ ~run.cache_hit /\ run.data_gets = 0

\* C3: once Start Over has been handled the session is Idle: no stored
\* record, no stored image, no failure flag.
C3_ResetReturnsToIdle ==
    run.op = "reset" =>
        pokemon_data = NoneData /\ captured_image = NoImage /\ detection_failed = FALSE

C5_OnlySuccessesCached ==
    \A k \in DOMAIN cache : cache[k].value # NoneData

\* C6: a fetch for b issues no GET when a fetch for a name a of the same slug
\* succeeded with a GET less than the time-to-live ago.
C6_CacheKeyedBySlug ==
    (run.op = "fetch" /\ run.data_gets = 1) =>
        ~ \E a \in DOMAIN last_get :
            /\ a # run.fetch_arg
            /\ clean_name(a) = clean_name(run.fetch_arg)
            /\ last_get[a].value # NoneData
            /\ now < last_get[a].time + TTL

\* a record as the mapping builds it, with every field
IsFullRecord(d) ==
    DOMAIN d = {"name", "official_sprite", "types", "height", "weight", "stats", "abilities"}

\* C7: fetch_pokemon_data never raises, issues at most one GET, returns absent
\* or a full record, and an analysis whose fetch returned absent reaches
\* NotFound.
C7_AbsentFetchReachesNotFound ==
    (run.op = "analyze" /\ run.fetch_called) =>
        /\ ~run.raised
        /\ run.data_gets <= 1
        /\ run.fetched = NoneData \/ IsFullRecord(run.fetched)
        /\ run.fetched = NoneData => NotFound

\* the half of C7 about the function alone, for direct calls
FetchIsTotal ==
    run.op = "fetch" =>
        /\ ~run.raised
        /\ run.data_gets <= 1
        /\ run.fetched = NoneData \/ IsFullRecord(run.fetched)
        /\ run.fetch_arg = <<>> => (run.fetched = NoneData /\ run.data_gets = 0)

\* C8: predict_pokemon never raises and returns None or a non-empty trimmed
\* string whose lower-case form is not in the list of invalid responses.
C8_PredictReturnsNameOrNone ==
    run.op = "predict" =>
        /\ ~out.exc
        /\ \/ out.value = None
           \/ /\ IsString(out.value)
              /\ out.value # <<>>
              /\ strip(out.value) = out.value
              /\ lower(out.value) \notin Denylist

\* a padded, capitalised member of the list was answered and filtered out
C8_Witness ==
    /\ run.op = "predict"
    /\ api_key
    /\ arg.kind = "text"
    /\ arg.content \notin Denylist
    /\ lower(strip(arg.content)) \in Denylist
    /\ out.value = None

\* C9 as stated: without the credential the identification fails with a
\* ConfigurationError, no outbound call is made and the error is shown.
C9_ConfigurationErrorRaised ==
    (AnalysisRan /\ ~api_key) =>
        /\ run.vision_requests = 0
        /\ ~run.fetch_called
        /\ run.error_shown
        /\ run.raised

\* C9 as amended: without the credential an analysis makes no outbound call,
\* shows the error message (shown in no other case), and predict_pokemon
\* returns None without raising, so that the run sets detection_failed as a
\* "nothing identified" run does.
C9_MissingKeyIsAbsentWithMessage ==
    /\ (AnalysisRan /\ ~api_key) =>
          /\ run.vision_requests = 0
          /\ ~run.fetch_called
          /\ run.data_gets = 0
          /\ run.error_shown
          /\ ~run.raised
          /\ run.predicted = None
          /\ detection_failed
    /\ (AnalysisRan /\ api_key) => ~run.error_shown

\* an analysis ran without the credential
C9_Witness ==
    AnalysisRan /\ ~api_key /\ run.error_shown /\ detection_failed

sMrMimeWideSlug == <<"m","r","-","-","m","i","m","e">>

\* C10: clean_name returns a string for every string, cleaning a cleaned name
\* changes nothing, "Pikachu" and " pikachu " clean to "pikachu" and
\* "Mr Mime" to "mr-mime".
C10_CleanNameIdempotent ==
    /\ run.op \in {"clean", "clean2"} => IsString(out)
    /\ run.op = "clean2" => out = arg
    /\ (run.op = "clean" /\ arg \in {sPikachu, sPikachuPad}) => out = sPikachuLow
    /\ (run.op = "clean" /\ arg = sMrMime) => out = sMrMimeSlug

\* a name with repeated interior spaces was cleaned twice
C10_Witness ==
    run.op = "clean2" /\ arg = sMrMimeWideSlug /\ out = sMrMimeWideSlug

\* C11: for a 200 document the record's abilities are the first min(3, n)
\* upstream abilities in order, its types all upstream types in order (names
\* capitalised), and each of the six stats is shown with its upstream base
\* value when the document lists it and with zero when it does not.
C11_RecordMapping ==
    run.op = "record" =>
        LET n == Len(arg.abilities)
            m == IF n < 3 THEN n ELSE 3
            rec == out.record
        IN  /\ rec # NoneData
            /\ Len(rec.abilities) = m
            /\ \A i \in 1..m : rec.abilities[i] = capitalize(arg.abilities[i])
            /\ Len(rec.types) = Len(arg.types)
            /\ \A i \in 1..Len(arg.types) : rec.types[i] = capitalize(arg.types[i])
            /\ \A k \in StatKeys :
                  IF \E i \in 1..Len(arg.stats) : arg.stats[i].name = k
                  THEN \E i \in 1..Len(arg.stats) :
                          arg.stats[i].name = k /\ out.shown[k] = arg.stats[i].base_stat
                  ELSE out.shown[k] = 0

\* a document with four abilities and no hp was mapped
C11_Witness ==
    /\ run.op = "record"
    /\ Len(arg.abilities) = 4
    /\ Len(out.record.abilities) = 3
    /\ ~ \E i \in 1..Len(arg.stats) : arg.stats[i].name = "hp"
    /\ out.shown["hp"] = 0
    /\ out.shown["speed"] = 255

C13_AnalyzeNeedsImage ==
    [][ (run'.op = "analyze" /\ captured_image = NoImage) =>
          /\ ~run'.analyzed
          /\ run'.vision_requests = 0
          /\ ~run'.fetch_called
          /\ run'.data_gets = 0
          /\ UNCHANGED <<pokemon_data, captured_image, detection_failed>> ]_vars

\* the button was pressed in Idle
C13_Witness ==
    /\ run.op = "analyze"
    /\ ~run.analyzed
    /\ Idle
    /\ camera = NoImage

\* C15 as stated: in Found and in NotFound the session holds no image.
C15_ImageReleasedAfterAnalysis ==
    (Found \/ NotFound) => captured_image = NoImage

\* C15 as amended: in Found and in NotFound, and after every analysis, the
\* session still holds a captured image.
C15_ImageKeptAfterAnalysis ==
    /\ (Found \/ NotFound) => captured_image # NoImage
    /\ AnalysisRan => captured_image # NoImage

\* the widget's photo was cleared after an analysis found a record
C15_Witness ==
    /\ Found
    /\ camera = NoImage
    /\ captured_image # NoImage
    /\ run.op = "clear"

\* the analysis is over and the page shows a record or the message
Resolved == ~Analyzing /\ (Found \/ NotFound)

\* C14: an analysis in progress ends, it ends in Found or NotFound, and a
\* session in Found or NotFound leaves both only by Start Over.
C14_AnalysisResolves ==
    /\ Analyzing ~> Resolved
    /\ [][ (Analyzing /\ ~Analyzing') => Resolved' ]_vars
    /\ [][ (Resolved /\ ~Analyzing' /\ ~Resolved') => run'.op = "reset" ]_vars

\* an analysis made both calls and ended in NotFound
C14_Witness ==
    /\ run.op = "analyze"
    /\ run.analyzed
    /\ run.fetch_called
    /\ NotFound

====
